---- MODULE Spec2Model ----
(* The StoryMap mock API server (scripts/start_storymap.py): an in-memory     *)
(* corpus of article and entity dicts and the request handlers that read it.  *)
(* Python objects live in a heap of dicts addressed by reference, so that a   *)
(* handler writing through an alias of a stored article is visible as a       *)
(* change of the corpus.  Floats are kept as integer hundredths (0.95 is 95). *)
EXTENDS Integers, Sequences, FiniteSets, TLC

(* ------------------------------------------------------------------------ *)
(* Bounds of the request inputs and of the requests served at once.          *)
(* ------------------------------------------------------------------------ *)
MaxLimit == 2
MaxPage == 4
MaxOffset == 2
MaxFixture == 2
MaxThreads == 2

(* ------------------------------------------------------------------------ *)
(* Python built-ins used by the handlers.                                    *)
(* ------------------------------------------------------------------------ *)
Min(a, b) == IF a < b THEN a ELSE b
Max(a, b) == IF a > b THEN a ELSE b

UpperCase == "ABCDEFGHIJKLMNOPQRSTUVWXYZ"
LowerCase == "abcdefghijklmnopqrstuvwxyz"

\* The printable ASCII characters in code-point order (str comparison); the
\* grave accent, which no string here holds, is left out.
Ascii == " !\"#$%&'()*+,-./0123456789:;<=>?@ABCDEFGHIJKLMNOPQRSTUVWXYZ[\\]^_abcdefghijklmnopqrstuvwxyz{|}~"

Char(s, i) == SubSeq(s, i, i)

Ord(c) == CHOOSE i \in 1..Len(Ascii) : Char(Ascii, i) = c

\* The lower-case letter of each upper-case letter.
UpperToLower ==
  [c \in {Char(UpperCase, i) : i \in 1..Len(UpperCase)} |->
     Char(LowerCase, CHOOSE i \in 1..Len(UpperCase) : Char(UpperCase, i) = c)]

\* str.lower() on one character.
LowerChar(c) == IF c \in DOMAIN UpperToLower THEN UpperToLower[c] ELSE c

\* sub in s, for strings: substring containment ("" is in every string).
StrIn(sub, s) ==
  \E i \in 0..(Len(s) - Len(sub)) : SubSeq(s, i + 1, i + Len(sub)) = sub

\* s < t for strings: lexicographic by code point.
StrLt(s, t) ==
  LET n == Min(Len(s), Len(t))
      diff == {i \in 1..n : Char(s, i) # Char(t, i)}
  IN  IF diff = {} THEN Len(s) < Len(t)
      ELSE LET k == CHOOSE i \in diff : \A j \in diff : i <= j
           IN  Ord(Char(s, k)) < Ord(Char(t, k))

\* s >= t and s <= t for strings.
StrGe(s, t) == ~StrLt(s, t)
StrLe(s, t) == ~StrLt(t, s)

\* x in lst for a list.
ListIn(x, lst) == \E i \in 1..Len(lst) : lst[i] = x

\* A slice bound as list slicing clamps it: negative counts from the end.
SliceIndex(i, n) == IF i < 0 THEN Max(i + n, 0) ELSE Min(i, n)

\* lst[start:stop]
PySlice(lst, start, stop) ==
  LET lo == SliceIndex(start, Len(lst))
      hi == SliceIndex(stop, Len(lst))
  IN  IF lo < hi THEN SubSeq(lst, lo + 1, hi) ELSE <<>>

\* d[k] = v on a dict value.
SetItem(d, k, v) == [x \in DOMAIN d \cup {k} |-> IF x = k THEN v ELSE d[x]]

\* d.get(k, default)
DictGet(d, k, default) == IF k \in DOMAIN d THEN d[k] ELSE default

\* [f(x) for x in lst]
RECURSIVE Deref(_, _)
Deref(h, refs) ==
  IF refs = <<>> THEN <<>> ELSE <<h[Head(refs)]>> \o Deref(h, Tail(refs))

(* ------------------------------------------------------------------------ *)
(* The sample data.  uuid4 ids are opaque distinct tokens.                   *)
(* ------------------------------------------------------------------------ *)
SampleArticles ==
  <<
    [ id |-> "a1",
      title |-> "Roosevelt Begins Third Term as War Looms",
      content |-> "President Franklin D. Roosevelt was inaugurated for an unprecedented third term today, as war continues to rage in Europe and tensions with Japan increase in the Pacific. In his address, Roosevelt emphasized the importance of American preparedness while maintaining his commitment to keeping the nation out of foreign conflicts.",
      category |-> "politics",
      publication_date |-> "1941-01-20",
      source |-> "The Daily Chronicle",
      is_advertisement |-> FALSE,
      quality_score |-> 92,
      word_count |-> 1250 ],
    [ id |-> "a2",
      title |-> "Churchill and Roosevelt Meet Aboard Warships",
      content |-> "Prime Minister Winston Churchill and President Franklin D. Roosevelt concluded a secret meeting aboard naval vessels in the Atlantic Ocean yesterday, issuing what is being called the \"Atlantic Charter\" - a joint declaration of post-war aims that emphasizes self-determination for all nations and economic cooperation.",
      category |-> "international",
      publication_date |-> "1941-08-14",
      source |-> "The Evening Star",
      is_advertisement |-> FALSE,
      quality_score |-> 89,
      word_count |-> 950 ],
    [ id |-> "a3",
      title |-> "Roosevelt Declares War After Pearl Harbor Attack",
      content |-> "In an address to Congress that will surely echo through history, President Roosevelt called December 7, 1941 \"a date which will live in infamy\" as he asked for and received a declaration of war against the Empire of Japan following the surprise attack on Pearl Harbor, Hawaii.",
      category |-> "war",
      publication_date |-> "1941-12-08",
      source |-> "The Morning Herald",
      is_advertisement |-> FALSE,
      quality_score |-> 95,
      word_count |-> 1100 ],
    [ id |-> "a4",
      title |-> "Civil Rights Leaders Meet at White House",
      content |-> "A delegation of civil rights leaders including A. Philip Randolph and Walter White met with President Roosevelt today to discuss racial discrimination in defense industries. The meeting comes amid growing tensions and threats of a massive march on Washington to protest segregation in the military and defense sectors.",
      category |-> "civil rights",
      publication_date |-> "1941-06-18",
      source |-> "The People's Voice",
      is_advertisement |-> FALSE,
      quality_score |-> 88,
      word_count |-> 875 ],
    [ id |-> "a5",
      title |-> "Women Join Workforce as War Production Accelerates",
      content |-> "Factories across the nation are seeing an unprecedented influx of female workers as war production ramps up and millions of men join the armed forces. \"Rosie the Riveter\" has become a symbol of the American woman's contribution to the war effort, with government campaigns actively encouraging women to take up industrial jobs.",
      category |-> "society",
      publication_date |-> "1942-07-30",
      source |-> "Industrial Times",
      is_advertisement |-> FALSE,
      quality_score |-> 85,
      word_count |-> 920 ]
  >>

SampleEntities ==
  <<
    [ id |-> "e1", name |-> "Franklin D. Roosevelt", entity_type |-> "person" ],
    [ id |-> "e2", name |-> "Winston Churchill", entity_type |-> "person" ],
    [ id |-> "e3", name |-> "Pearl Harbor", entity_type |-> "location" ],
    [ id |-> "e4", name |-> "World War II", entity_type |-> "event" ],
    [ id |-> "e5", name |-> "White House", entity_type |-> "location" ],
    [ id |-> "e6", name |-> "A. Philip Randolph", entity_type |-> "person" ],
    [ id |-> "e7", name |-> "Walter White", entity_type |-> "person" ],
    [ id |-> "e8", name |-> "Atlantic Charter", entity_type |-> "event" ]
  >>

\* Fixture articles: titles and contents that hold the canonical terms in
\* the combinations the sample corpus lacks (a first matching term found in
\* the content only while a later term is in the title).
FixtureArticles ==
  { [title |-> "War Diary", content |-> "Roosevelt speaks to the nation."],
    [title |-> "Churchill Visits", content |-> "Talks about the war go on."],
    [title |-> "Harvest Festival", content |-> "Nothing of note; pearl harbor."],
    [title |-> "Roosevelt at Pearl Harbor", content |-> "Churchill sends word."] }

\* The query strings of the search requests.
Queries ==
  { "", "FDR", "roosvelt", "fdr Roosevelt", "Churchill and FDR", "churchil ww2",
    "World War", "fdr ww2", "Pearl Harbor", "pearl harbor ww2 churchil roosavelt",
    "join", "Meet", "President", "term", "zeppelin" }

\* Each character of s lower-cased, in order.
RECURSIVE LowerChars(_)
LowerChars(s) ==
  IF Len(s) = 0 THEN ""
  ELSE IF Len(s) = 1 THEN LowerChar(s)
  ELSE LET mid == Len(s) \div 2
       IN  LowerChars(SubSeq(s, 1, mid)) \o LowerChars(SubSeq(s, mid + 1, Len(s)))

\* The strings of the corpora and of the requests, with their lower case.
Lowered ==
  [s \in {SampleArticles[i].title : i \in 1..Len(SampleArticles)}
         \cup {SampleArticles[i].content : i \in 1..Len(SampleArticles)}
         \cup {SampleEntities[i].name : i \in 1..Len(SampleEntities)}
         \cup {f.title : f \in FixtureArticles}
         \cup {f.content : f \in FixtureArticles}
         \cup Queries |-> LowerChars(s)]

\* str.lower(): looked up for the strings above, computed for any other.
lower(s) == IF s \in DOMAIN Lowered THEN Lowered[s] ELSE LowerChars(s)

(* ------------------------------------------------------------------------ *)
(* State.  heap: the dict objects, by reference (a position of the heap).    *)
(* ARTICLES, ENTITIES: the module-level lists, of references.  threads: the  *)
(* requests the server handles at once (app.run serves each request on a    *)
(* thread of its own), one record per thread: the request, the position in   *)
(* its handler (pc), the handler's locals and, once returned, the response.  *)
(* ------------------------------------------------------------------------ *)
VARIABLES heap, ARTICLES, ENTITIES, threads

vars == <<heap, ARTICLES, ENTITIES, threads>>

NoRequest == [op |-> "none"]
NoResponse == [status |-> 0]

\* request.json: None (a JSON null body) or a dict.
JsonNone == [isnull |-> TRUE]
JsonObj(d) == [isnull |-> FALSE, obj |-> d]

\* `not data` for a value that is None or a dict.
Falsy(data) == data.isnull \/ DOMAIN data.obj = {}

\* abort(code, description=...)
Abort(code, description) == [status |-> code, description |-> description]

\* jsonify(body)
Jsonify(body) == [status |-> 200, body |-> body]

\* Mutant of DictCopy: no copy is made, the stored object itself is returned.
DictAlias(h, ref) == [heap |-> h, ref |-> ref]

\* dict.copy(): a new object holding the same items.
DictCopy(h, ref) == [heap |-> Append(h, h[ref]), ref |-> Len(h) + 1]

(* ------------------------------------------------------------------------ *)
(* Threads.  A thread runs its handler one step at a time; between two of   *)
(* its steps any other thread may run.  A handler is cut where it touches    *)
(* the stored objects and where it blocks (the print calls of search).  The  *)
(* dicts a thread allocates are reachable from its locals only: they are     *)
(* kept with the thread (local), addressed after the stored ones.            *)
(* ------------------------------------------------------------------------ *)
Threads == 1..MaxThreads

\* A thread with no request: no local is assigned yet.
IdleThread ==
  [pc |-> "idle", request |-> NoRequest, query |-> "", limit |-> 0, idx |-> 0,
   local |-> <<>>, refs |-> <<>>, terms |-> <<>>, response |-> NoResponse]

\* The objects thread t sees: the stored ones, then its own.
ThreadHeap(t) == heap \o threads[t].local

\* The stored objects of h, as a handler step left them.
Collect(h) == SubSeq(h, 1, Len(heap))

\* The objects of h that are a thread's own.
Locals(h) == SubSeq(h, Len(heap) + 1, Len(h))

\* Thread t ends its handler with response r.
Return(t, r) ==
  threads' = [threads EXCEPT ![t].pc = "done", ![t].response = r]

(* ------------------------------------------------------------------------ *)
(* search(): POST /api/search                                                *)
(* ------------------------------------------------------------------------ *)
\* Mutant of SearchTerms: the canonical term is appended once per member of
\* the group found in the query.
SearchTermsPerMember(query) ==
  LET Add(t, member, term) == IF StrIn(member, query) THEN Append(t, term) ELSE t
      t1 == Add(Add(Add(Add(<<>>, "roosevelt", "roosevelt"), "roosvelt", "roosevelt"),
                    "roosavelt", "roosevelt"), "fdr", "roosevelt")
      t2 == Add(Add(t1, "churchill", "churchill"), "churchil", "churchill")
      t3 == Add(Add(t2, "world war", "war"), "ww2", "war")
      t4 == Add(t3, "pearl harbor", "pearl harbor")
  IN  IF t4 = <<>> THEN <<query>> ELSE t4

\* Mutant of SearchTerms: the query itself is always searched for too.
SearchTermsAlwaysQuery(query) ==
  LET t1 == IF \/ StrIn("roosevelt", query) \/ StrIn("roosvelt", query)
               \/ StrIn("roosavelt", query) \/ StrIn("fdr", query)
            THEN Append(<<>>, "roosevelt") ELSE <<>>
      t2 == IF StrIn("churchill", query) \/ StrIn("churchil", query)
            THEN Append(t1, "churchill") ELSE t1
      t3 == IF StrIn("world war", query) \/ StrIn("ww2", query)
            THEN Append(t2, "war") ELSE t2
      t4 == IF StrIn("pearl harbor", query)
            THEN Append(t3, "pearl harbor") ELSE t3
  IN  Append(t4, query)

\* The search terms of a lower-cased query.
SearchTerms(query) ==
  LET t1 == IF \/ StrIn("roosevelt", query) \/ StrIn("roosvelt", query)
               \/ StrIn("roosavelt", query) \/ StrIn("fdr", query)
            THEN Append(<<>>, "roosevelt") ELSE <<>>
      t2 == IF StrIn("churchill", query) \/ StrIn("churchil", query)
            THEN Append(t1, "churchill") ELSE t1
      t3 == IF StrIn("world war", query) \/ StrIn("ww2", query)
            THEN Append(t2, "war") ELSE t2
      t4 == IF StrIn("pearl harbor", query)
            THEN Append(t3, "pearl harbor") ELSE t3
  IN  IF t4 = <<>> THEN <<query>> ELSE t4

\* The similarity of an article matched by term.
Similarity(term, title_lower) == IF StrIn(term, title_lower) THEN 95 ELSE 85

\* Mutant of MatchArticle: the loop goes on after a match (no break).
RECURSIVE MatchArticleNoBreak(_, _, _, _)
MatchArticleNoBreak(st, article, terms, k) ==
  IF k > Len(terms) THEN st
  ELSE LET term == terms[k]
           title_lower == lower(st.heap[article].title)
           content_lower == lower(st.heap[article].content)
       IN  IF StrIn(term, title_lower) \/ StrIn(term, content_lower)
           THEN LET c == DictCopy(st.heap, article)
                    h2 == [c.heap EXCEPT ![c.ref] =
                             SetItem(@, "similarity", Similarity(term, title_lower))]
                IN  MatchArticleNoBreak([heap |-> h2, results |-> Append(st.results, c.ref)],
                                        article, terms, k + 1)
           ELSE MatchArticleNoBreak(st, article, terms, k + 1)

\* The term loop for one article, from term k on: the first term found in
\* the title or the content appends a scored copy and ends the loop.
\* st = [heap, results].
RECURSIVE MatchArticle(_, _, _, _)
MatchArticle(st, article, terms, k) ==
  IF k > Len(terms) THEN st
  ELSE LET term == terms[k]
           title_lower == lower(st.heap[article].title)
           content_lower == lower(st.heap[article].content)
       IN  IF StrIn(term, title_lower) \/ StrIn(term, content_lower)
           THEN LET c == DictCopy(st.heap, article)
                    h2 == [c.heap EXCEPT ![c.ref] =
                             SetItem(@, "similarity", Similarity(term, title_lower))]
                IN  [heap |-> h2, results |-> Append(st.results, c.ref)]
           ELSE MatchArticle(st, article, terms, k + 1)

\* for article in ARTICLES, from position i on.
RECURSIVE ScanArticles(_, _, _, _)
ScanArticles(st, articles, terms, i) ==
  IF i > Len(articles) THEN st
  ELSE ScanArticles(MatchArticle(st, articles[i], terms, 1), articles, terms, i + 1)

\* One step of the stable descending sort: r goes after every element whose
\* similarity is not below its own.
RECURSIVE InsertBySimilarity(_, _, _)
InsertBySimilarity(h, sorted, r) ==
  IF sorted = <<>> THEN <<r>>
  ELSE IF h[Head(sorted)].similarity >= h[r].similarity
       THEN <<Head(sorted)>> \o InsertBySimilarity(h, Tail(sorted), r)
       ELSE <<r>> \o sorted

\* results.sort(key=lambda x: x['similarity'], reverse=True): stable.
RECURSIVE SortBySimilarity(_, _)
SortBySimilarity(h, results) ==
  IF results = <<>> THEN <<>>
  ELSE InsertBySimilarity(h, SortBySimilarity(h, SubSeq(results, 1, Len(results) - 1)),
                          results[Len(results)])

\* Mutant of SortAndLimit: the results are cut to the limit before the sort.
LimitAndSort(h, results, limit) == SortBySimilarity(h, PySlice(results, 0, limit))

\* Sort by similarity score, then limit results.
SortAndLimit(h, results, limit) == PySlice(SortBySimilarity(h, results), 0, limit)

DefaultSearchLimit == 10

\* The outcome of the handler run from start to end on a request body:
\* [heap, terms, response].
SearchResult(h, articles, data) ==
  IF Falsy(data) \/ "query" \notin DOMAIN data.obj
  THEN [heap |-> h, terms |-> <<>>, response |-> Abort(400, "Query is required")]
  ELSE LET query == lower(data.obj.query)
           limit == DictGet(data.obj, "limit", DefaultSearchLimit)
           terms == SearchTerms(query)
           st == ScanArticles([heap |-> h, results |-> <<>>], articles, terms, 1)
           results == SortAndLimit(st.heap, st.results, limit)
       IN  [heap |-> st.heap, terms |-> terms,
            response |-> Jsonify([query |-> data.obj.query,
                                  results |-> Deref(st.heap, results)])]

\* search(): the body is checked, query and limit are read, and the query
\* is printed.
search_begin(t) ==
  /\ threads[t].pc = "begin"
  /\ threads[t].request.op = "search"
  /\ LET data == threads[t].request.json
     IN  IF Falsy(data) \/ "query" \notin DOMAIN data.obj
         THEN Return(t, Abort(400, "Query is required"))
         ELSE threads' = [threads EXCEPT ![t].pc = "expand",
                            ![t].query = lower(data.obj.query),
                            ![t].limit = DictGet(data.obj, "limit", DefaultSearchLimit)]
  /\ UNCHANGED <<heap, ARTICLES, ENTITIES>>

\* search(): results = [], the search terms are built and printed.
search_expand(t) ==
  /\ threads[t].pc = "expand"
  /\ threads[t].request.op = "search"
  /\ threads' = [threads EXCEPT ![t].pc = "scan", ![t].idx = 1, ![t].refs = <<>>,
                   ![t].terms = SearchTerms(threads[t].query)]
  /\ UNCHANGED <<heap, ARTICLES, ENTITIES>>

\* search(): one pass of the loop over ARTICLES.
search_scan(t) ==
  /\ threads[t].pc = "scan"
  /\ threads[t].idx <= Len(ARTICLES)
  /\ LET st == MatchArticle([heap |-> ThreadHeap(t), results |-> threads[t].refs],
                            ARTICLES[threads[t].idx], threads[t].terms, 1)
     IN  /\ heap' = Collect(st.heap)
         /\ threads' = [threads EXCEPT ![t].idx = @ + 1, ![t].refs = st.results,
                          ![t].local = Locals(st.heap)]
  /\ UNCHANGED <<ARTICLES, ENTITIES>>

\* search(): after the loop the results are sorted and cut to the limit, and
\* their number is printed.
search_sort(t) ==
  /\ threads[t].pc = "scan"
  /\ threads[t].idx > Len(ARTICLES)
  /\ threads' = [threads EXCEPT ![t].pc = "return",
                   ![t].refs = SortAndLimit(ThreadHeap(t), threads[t].refs,
                                            threads[t].limit)]
  /\ UNCHANGED <<heap, ARTICLES, ENTITIES>>

\* search(): return jsonify(...).
search_return(t) ==
  /\ threads[t].pc = "return"
  /\ threads[t].request.op = "search"
  /\ Return(t, Jsonify([query |-> threads[t].request.json.obj.query,
                        results |-> Deref(ThreadHeap(t), threads[t].refs)]))
  /\ UNCHANGED <<heap, ARTICLES, ENTITIES>>

(* ------------------------------------------------------------------------ *)
(* filter_articles(): POST /api/filter                                       *)
(* ------------------------------------------------------------------------ *)
\* [a for a in filtered if a['category'] in categories]
RECURSIVE KeepCategories(_, _, _)
KeepCategories(h, filtered, categories) ==
  IF filtered = <<>> THEN <<>>
  ELSE (IF ListIn(h[Head(filtered)].category, categories)
        THEN <<Head(filtered)>> ELSE <<>>)
       \o KeepCategories(h, Tail(filtered), categories)

\* [a for a in filtered if a['publication_date'] >= start_date]
RECURSIVE KeepFrom(_, _, _)
KeepFrom(h, filtered, start_date) ==
  IF filtered = <<>> THEN <<>>
  ELSE (IF StrGe(h[Head(filtered)].publication_date, start_date)
        THEN <<Head(filtered)>> ELSE <<>>)
       \o KeepFrom(h, Tail(filtered), start_date)

\* Mutant of KeepUntil: the end bound is exclusive.
RECURSIVE KeepBefore(_, _, _)
KeepBefore(h, filtered, end_date) ==
  IF filtered = <<>> THEN <<>>
  ELSE (IF StrLt(h[Head(filtered)].publication_date, end_date)
        THEN <<Head(filtered)>> ELSE <<>>)
       \o KeepBefore(h, Tail(filtered), end_date)

\* [a for a in filtered if a['publication_date'] <= end_date]
RECURSIVE KeepUntil(_, _, _)
KeepUntil(h, filtered, end_date) ==
  IF filtered = <<>> THEN <<>>
  ELSE (IF StrLe(h[Head(filtered)].publication_date, end_date)
        THEN <<Head(filtered)>> ELSE <<>>)
       \o KeepUntil(h, Tail(filtered), end_date)

\* Apply filters: each one only when its criterion is truthy (a non-empty
\* list, a non-empty string).  d is the request's dict.
ApplyFilters(h, articles, d) ==
  LET categories == DictGet(d, "categories", <<>>)
      date_range == DictGet(d, "date_range", <<>>)
      f0 == articles
      f1 == IF categories # <<>> THEN KeepCategories(h, f0, categories) ELSE f0
      f2 == IF "start" \in DOMAIN date_range /\ date_range.start # ""
            THEN KeepFrom(h, f1, date_range.start) ELSE f1
      f3 == IF "end" \in DOMAIN date_range /\ date_range.end # ""
            THEN KeepUntil(h, f2, date_range.end) ELSE f2
  IN  f3

\* Mutant of PageOffset: pages counted from zero.
PageOffsetFromZero(page, limit) == page * limit

\* offset = (page - 1) * limit
PageOffset(page, limit) == (page - 1) * limit

\* Apply pagination.
Paginate(filtered, page, limit) ==
  PySlice(filtered, PageOffset(page, limit), PageOffset(page, limit) + limit)

DefaultPage == 1
DefaultFilterLimit == 10

\* The response of the handler run from start to end on a request body.
FilterResult(h, articles, data) ==
  IF Falsy(data) THEN Abort(400, "Filter criteria required")
  ELSE LET page == DictGet(data.obj, "page", DefaultPage)
           limit == DictGet(data.obj, "limit", DefaultFilterLimit)
           filtered == ApplyFilters(h, articles, data.obj)
           paginated == Paginate(filtered, page, limit)
       IN  Jsonify([articles |-> Deref(h, paginated), total |-> Len(filtered),
                    page |-> page, limit |-> limit])

\* filter_articles(), up to the filtered list.
filter_begin(t) ==
  /\ threads[t].pc = "begin"
  /\ threads[t].request.op = "filter"
  /\ LET data == threads[t].request.json
     IN  IF Falsy(data)
         THEN Return(t, Abort(400, "Filter criteria required"))
         ELSE threads' = [threads EXCEPT ![t].pc = "paginate",
                            ![t].refs = ApplyFilters(heap, ARTICLES, data.obj)]
  /\ UNCHANGED <<heap, ARTICLES, ENTITIES>>

\* filter_articles(): pagination and return.
filter_return(t) ==
  /\ threads[t].pc = "paginate"
  /\ LET d == threads[t].request.json.obj
         page == DictGet(d, "page", DefaultPage)
         limit == DictGet(d, "limit", DefaultFilterLimit)
         paginated == Paginate(threads[t].refs, page, limit)
     IN  Return(t, Jsonify([articles |-> Deref(heap, paginated),
                            total |-> Len(threads[t].refs),
                            page |-> page, limit |-> limit]))
  /\ UNCHANGED <<heap, ARTICLES, ENTITIES>>

(* ------------------------------------------------------------------------ *)
(* get_articles(), get_article(), get_entities(), get_entities_by_type()     *)
(* ------------------------------------------------------------------------ *)
DefaultListLimit == 10
DefaultListOffset == 0

\* request.args.get(name, default=..., type=int)
ArgGet(args, name, default) == DictGet(args, name, default)

\* The handler's response to the query arguments.
ArticlesResult(h, articles, args) ==
  LET limit == ArgGet(args, "limit", DefaultListLimit)
      offset == ArgGet(args, "offset", DefaultListOffset)
      filtered_articles == PySlice(articles, offset, offset + limit)
  IN  Jsonify([articles |-> Deref(h, filtered_articles),
               limit |-> limit, offset |-> offset, total |-> Len(articles)])

get_articles(t) ==
  /\ threads[t].pc = "begin"
  /\ threads[t].request.op = "get_articles"
  /\ Return(t, ArticlesResult(heap, ARTICLES, threads[t].request.args))
  /\ UNCHANGED <<heap, ARTICLES, ENTITIES>>

\* [e for e in ENTITIES if e["name"].lower() in article["content"].lower()]
RECURSIVE ArticleEntities(_, _, _)
ArticleEntities(h, entities, content_lower) ==
  IF entities = <<>> THEN <<>>
  ELSE (IF StrIn(lower(h[Head(entities)].name), content_lower)
        THEN <<Head(entities)>> ELSE <<>>)
       \o ArticleEntities(h, Tail(entities), content_lower)

\* get_article(): the lookup.
article_lookup(t) ==
  /\ threads[t].pc = "begin"
  /\ threads[t].request.op = "get_article"
  /\ LET found == {i \in 1..Len(ARTICLES) :
                     heap[ARTICLES[i]].id = threads[t].request.article_id}
     IN  IF found = {}
         THEN Return(t, Abort(404, "Article not found"))
         ELSE threads' = [threads EXCEPT ![t].pc = "enrich",
                            ![t].refs = <<ARTICLES[CHOOSE i \in found :
                                                     \A j \in found : i <= j]>>]
  /\ UNCHANGED <<heap, ARTICLES, ENTITIES>>

\* get_article(): the entities, the copy and the item set on it.
article_enrich(t) ==
  /\ threads[t].pc = "enrich"
  /\ LET article == threads[t].refs[1]
         article_entities == ArticleEntities(heap, ENTITIES, lower(heap[article].content))
         c == DictCopy(ThreadHeap(t), article)
         h2 == [c.heap EXCEPT ![c.ref] = SetItem(@, "entities", article_entities)]
     IN  /\ heap' = Collect(h2)
         /\ threads' = [threads EXCEPT ![t].pc = "respond", ![t].refs = <<c.ref>>,
                          ![t].local = Locals(h2)]
  /\ UNCHANGED <<ARTICLES, ENTITIES>>

\* get_article(): return jsonify(result).
article_return(t) ==
  /\ threads[t].pc = "respond"
  /\ LET h == ThreadHeap(t)
         result == h[threads[t].refs[1]]
     IN  Return(t, Jsonify(SetItem(result, "entities", Deref(h, result.entities))))
  /\ UNCHANGED <<heap, ARTICLES, ENTITIES>>

\* The handler's response to the query arguments.
EntitiesResult(h, entities, args) ==
  LET limit == ArgGet(args, "limit", DefaultListLimit)
      offset == ArgGet(args, "offset", DefaultListOffset)
      filtered_entities == PySlice(entities, offset, offset + limit)
  IN  Jsonify([entities |-> Deref(h, filtered_entities),
               limit |-> limit, offset |-> offset])

get_entities(t) ==
  /\ threads[t].pc = "begin"
  /\ threads[t].request.op = "get_entities"
  /\ Return(t, EntitiesResult(heap, ENTITIES, threads[t].request.args))
  /\ UNCHANGED <<heap, ARTICLES, ENTITIES>>

\* [e for e in ENTITIES if e["entity_type"] == entity_type]
RECURSIVE EntitiesOfType(_, _, _)
EntitiesOfType(h, entities, entity_type) ==
  IF entities = <<>> THEN <<>>
  ELSE (IF h[Head(entities)].entity_type = entity_type
        THEN <<Head(entities)>> ELSE <<>>)
       \o EntitiesOfType(h, Tail(entities), entity_type)

\* The handler's response to the entity type and the query arguments.
EntitiesByTypeResult(h, entities, entity_type, args) ==
  LET limit == ArgGet(args, "limit", DefaultListLimit)
      offset == ArgGet(args, "offset", DefaultListOffset)
      filtered_entities == EntitiesOfType(h, entities, entity_type)
      result == PySlice(filtered_entities, offset, offset + limit)
  IN  Jsonify([entities |-> Deref(h, result), limit |-> limit, offset |-> offset])

get_entities_by_type(t) ==
  /\ threads[t].pc = "begin"
  /\ threads[t].request.op = "get_entities_by_type"
  /\ Return(t, EntitiesByTypeResult(heap, ENTITIES, threads[t].request.entity_type,
                                    threads[t].request.args))
  /\ UNCHANGED <<heap, ARTICLES, ENTITIES>>

(* ------------------------------------------------------------------------ *)
(* Requests.                                                                 *)
(* ------------------------------------------------------------------------ *)
Limits == (-1)..MaxLimit

SearchBodies ==
  {JsonNone, JsonObj(<<>>)}
    \cup {JsonObj([limit |-> l]) : l \in Limits}
    \cup {JsonObj([query |-> q]) : q \in Queries}
    \cup {JsonObj([query |-> q, limit |-> l]) : q \in Queries, l \in Limits}

SearchRequests == {[op |-> "search", json |-> b] : b \in SearchBodies}

Pages == (-1)..MaxPage

Offsets == (-1)..MaxOffset

CategoryLists ==
  { <<>>, <<"war">>, <<"politics", "war">>, <<"sports">> }

DateRanges ==
  { <<>>,
    [start |-> "1941-06-18"],
    [end |-> "1941-08-14"],
    [start |-> "1941-06-18", end |-> "1941-12-08"],
    [start |-> "1942-01-01"],
    [start |-> "", end |-> "1941-06-18"],
    [start |-> "1941-12-09", end |-> "1941-01-01"] }

\* The dicts over optional keys: every choice of present keys and values.
CategoryPart == {<<>>} \cup {[categories |-> c] : c \in CategoryLists}
DateRangePart == {<<>>} \cup {[date_range |-> r] : r \in DateRanges}
PagePart == {<<>>} \cup {[page |-> p] : p \in Pages}
LimitPart == {<<>>} \cup {[limit |-> l] : l \in Limits}
OffsetPart == {<<>>} \cup {[offset |-> o] : o \in Offsets}

\* The dict holding the items of both (their keys are disjoint).
Merge(d1, d2) ==
  [k \in DOMAIN d1 \cup DOMAIN d2 |-> IF k \in DOMAIN d1 THEN d1[k] ELSE d2[k]]

FilterBodies ==
  {JsonNone}
    \cup {JsonObj(Merge(Merge(c, r), Merge(p, l))) :
            c \in CategoryPart, r \in DateRangePart, p \in PagePart, l \in LimitPart}

FilterRequests == {[op |-> "filter", json |-> b] : b \in FilterBodies}

ListArgs == {Merge(l, o) : l \in LimitPart, o \in OffsetPart}

ArticleIds == {"a1", "a2", "a3", "a4", "a5", "f1", "f2", "no-such-id"}

EntityTypes == {"person", "location", "event", "organization"}

ListRequests ==
  {[op |-> "get_articles", args |-> a] : a \in ListArgs}
    \cup {[op |-> "get_article", article_id |-> i] : i \in ArticleIds}
    \cup {[op |-> "get_entities", args |-> a] : a \in ListArgs}
    \cup {[op |-> "get_entities_by_type", entity_type |-> t, args |-> a] :
            t \in EntityTypes, a \in ListArgs}

Requests == SearchRequests \cup FilterRequests \cup ListRequests

\* The requests that overlap the request under observation: an article
\* detail (the first article's) and a filter.
OverlapRequests ==
  { [op |-> "get_article", article_id |-> heap[ARTICLES[1]].id],
    [op |-> "filter", json |-> JsonObj([categories |-> <<"war">>])] }

\* The requests of the server whose threads all serve alike: every route,
\* with and without an abort.
ThreadRequests ==
  { [op |-> "search", json |-> JsonObj([query |-> "join", limit |-> 1])],
    [op |-> "search", json |-> JsonObj(<<>>)],
    [op |-> "filter", json |-> JsonObj([categories |-> <<"war">>])],
    [op |-> "filter", json |-> JsonNone],
    [op |-> "get_article", article_id |-> "a4"],
    [op |-> "get_article", article_id |-> "no-such-id"],
    [op |-> "get_articles", args |-> [limit |-> 1]],
    [op |-> "get_entities", args |-> [limit |-> 1]],
    [op |-> "get_entities_by_type", entity_type |-> "event", args |-> <<>>] }

\* A request of reqs arrives on thread t, while others may be in progress,
\* and is dispatched to its handler.
thread_receive(t, reqs) ==
  /\ threads[t].pc = "idle"
  /\ \E r \in reqs :
       threads' = [threads EXCEPT ![t] = [IdleThread EXCEPT !.pc = "begin", !.request = r]]
  /\ UNCHANGED <<heap, ARTICLES, ENTITIES>>

\* The thread's response is sent; the request context and the handler's
\* locals go with it.
thread_send(t) ==
  /\ threads[t].pc = "done"
  /\ threads' = [threads EXCEPT ![t] = IdleThread]
  /\ UNCHANGED <<heap, ARTICLES, ENTITIES>>

\* One step of the handler thread t is in.
handler_step(t) ==
  \/ search_begin(t)
  \/ search_expand(t)
  \/ search_scan(t)
  \/ search_sort(t)
  \/ search_return(t)
  \/ filter_begin(t)
  \/ filter_return(t)
  \/ get_articles(t)
  \/ article_lookup(t)
  \/ article_enrich(t)
  \/ article_return(t)
  \/ get_entities(t)
  \/ get_entities_by_type(t)

\* An article dict of the sample's shape with the given id, title and content.
FixtureArticle(i, f) ==
  [ id |-> "f" \o Char("123456789", i),
    title |-> f.title,
    content |-> f.content,
    category |-> "war",
    publication_date |-> "1941-12-08",
    source |-> "Fixture",
    is_advertisement |-> FALSE,
    quality_score |-> 90,
    word_count |-> 5 ]

FixtureCorpora ==
  UNION { { [i \in 1..n |-> FixtureArticle(i, c[i])] : c \in [1..n -> FixtureArticles] } :
          n \in 1..MaxFixture }

InitWith(articles) ==
  /\ heap = articles \o SampleEntities
  /\ ARTICLES = [i \in 1..Len(articles) |-> i]
  /\ ENTITIES = [i \in 1..Len(SampleEntities) |-> Len(articles) + i]
  /\ threads = [t \in Threads |-> IdleThread]

Init == InitWith(SampleArticles)

\* The sample corpus and the fixture corpora.
InitFixture == \E articles \in {SampleArticles} \cup FixtureCorpora : InitWith(articles)

\* The thread whose request the properties observe, and the thread whose
\* requests overlap it.
Foreground == CHOOSE t \in Threads : \A u \in Threads : t <= u
Background == Foreground + 1

\* Every request of the sample on the observed thread, at any point of
\* which the other thread serves its requests.
Next ==
  \/ thread_receive(Foreground, Requests)
  \/ thread_receive(Background, OverlapRequests)
  \/ \E t \in {Foreground, Background} : handler_step(t) \/ thread_send(t)

Spec == Init /\ [][Next]_vars

\* Every search request on the observed thread, over each of the corpora,
\* at any point of which the other thread serves its requests.
NextFixture ==
  \/ thread_receive(Foreground, SearchRequests)
  \/ thread_receive(Background, OverlapRequests)
  \/ \E t \in {Foreground, Background} :
       \/ search_begin(t)
       \/ search_expand(t)
       \/ search_scan(t)
       \/ search_sort(t)
       \/ search_return(t)
       \/ filter_begin(t)
       \/ filter_return(t)
       \/ article_lookup(t)
       \/ article_enrich(t)
       \/ article_return(t)
       \/ thread_send(t)

SpecFixture == InitFixture /\ [][NextFixture]_vars

\* Every thread serves the same requests.
NextThreads ==
  \E t \in Threads :
    \/ thread_receive(t, ThreadRequests)
    \/ handler_step(t)
    \/ thread_send(t)

SpecThreads == Init /\ [][NextThreads]_vars

(* ------------------------------------------------------------------------ *)
(* Properties.  What a response should be is stated here from the corpus and *)
(* the request alone, not with the handlers' operators.                      *)
(* ------------------------------------------------------------------------ *)
\* The observed thread's request context, the terms its search handler
\* printed, and what it returned.
request == threads[Foreground].request

response == threads[Foreground].response

search_terms == threads[Foreground].terms

\* Where the observed request is: not there, being handled, or answered.
phase ==
  IF threads[Foreground].pc = "idle" THEN "idle"
  ELSE IF threads[Foreground].pc = "done" THEN "responded"
  ELSE "handling"

Responded(op) == phase = "responded" /\ request.op = op

Answered(op) == Responded(op) /\ response.status = 200

Article(i) == heap[ARTICLES[i]]

Corpus == [i \in 1..Len(ARTICLES) |-> Article(i)]

RequestLimit == DictGet(request.json.obj, "limit", 10)

RequestPage == DictGet(request.json.obj, "page", 1)

Count(seq, x) == Cardinality({k \in 1..Len(seq) : seq[k] = x})

TermHits(a, term) == StrIn(term, lower(a.title)) \/ StrIn(term, lower(a.content))

Matched(a, terms) == \E k \in 1..Len(terms) : TermHits(a, terms[k])

FirstHit(a, terms) ==
  CHOOSE k \in 1..Len(terms) :
    TermHits(a, terms[k]) /\ \A j \in 1..(k - 1) : ~TermHits(a, terms[j])

ExpectedSimilarity(a, terms) ==
  IF StrIn(terms[FirstHit(a, terms)], lower(a.title)) THEN 95 ELSE 85

\* The matched articles of one similarity, scored, in corpus order from i on.
RECURSIVE Tier(_, _, _)
Tier(sim, terms, i) ==
  IF i > Len(ARTICLES) THEN <<>>
  ELSE (IF Matched(Article(i), terms) /\ ExpectedSimilarity(Article(i), terms) = sim
        THEN <<SetItem(Article(i), "similarity", sim)>> ELSE <<>>)
       \o Tier(sim, terms, i + 1)

ExpectedRanked(terms) == Tier(95, terms, 1) \o Tier(85, terms, 1)

FirstMatched(terms) ==
  CHOOSE i \in 1..Len(ARTICLES) :
    Matched(Article(i), terms) /\ \A j \in 1..(i - 1) : ~Matched(Article(j), terms)

\* C1: for a limit >= 0, search returns the first `limit` elements of the
\* matched articles sorted by descending similarity, equal similarities
\* in corpus order: at most `limit` results, truncated after the sort.
C1_SearchRanksThenTruncates ==
  (Answered("search") /\ RequestLimit >= 0) =>
    LET ranked == ExpectedRanked(search_terms)
    IN  /\ Len(response.body.results) <= RequestLimit
        /\ response.body.results = SubSeq(ranked, 1, Min(RequestLimit, Len(ranked)))

\* A search cut to fewer results than matched, whose first result is not the
\* first matched article of the corpus (the sort moved a title match up).
C1_Witness ==
  /\ Answered("search")
  /\ RequestLimit >= 1
  /\ Len(ExpectedRanked(search_terms)) > RequestLimit
  /\ Len(response.body.results) = RequestLimit
  /\ response.body.results[1].similarity = 95
  /\ ExpectedSimilarity(Article(FirstMatched(search_terms)), search_terms) = 85

\* C2: an article is in the untruncated result iff some term is in its
\* lower-cased title or content; it is there once, with the similarity its
\* first matching term gives: 0.95 if that term is in the title, else 0.85.
C2_FirstMatchingTermScores ==
  (Answered("search") /\ RequestLimit >= Len(ARTICLES)) =>
    LET results == response.body.results
    IN  /\ \A j \in 1..Len(results) :
             \E i \in 1..Len(ARTICLES) : results[j].id = Article(i).id
        /\ \A i \in 1..Len(ARTICLES) :
             LET a == Article(i)
                 hits == {j \in 1..Len(results) : results[j].id = a.id}
             IN  IF Matched(a, search_terms)
                 THEN /\ Cardinality(hits) = 1
                      /\ \A j \in hits :
                           results[j] =
                             SetItem(a, "similarity", ExpectedSimilarity(a, search_terms))
                 ELSE hits = {}

\* An article scored 0.85 by its first matching term, found in its content
\* only, although a later term is in its title.
C2_Witness ==
  /\ Answered("search")
  /\ RequestLimit >= Len(ARTICLES)
  /\ \E i \in 1..Len(ARTICLES) :
       /\ Matched(Article(i), search_terms)
       /\ ~StrIn(search_terms[FirstHit(Article(i), search_terms)], lower(Article(i).title))
       /\ \E k \in 1..Len(search_terms) : StrIn(search_terms[k], lower(Article(i).title))
       /\ \E j \in 1..Len(response.body.results) :
            /\ response.body.results[j].id = Article(i).id
            /\ response.body.results[j].similarity = 85

ViolatesContract ==
  \/ /\ request.op = "filter"
     /\ ~Falsy(request.json)
     /\ (RequestPage < 1 \/ RequestLimit <= 0)
  \/ /\ request.op = "search"
     /\ ~Falsy(request.json)
     /\ "query" \in DOMAIN request.json.obj
     /\ RequestLimit < 0

\* The list a handler returns when page is raised to 1 and limit to m.
ClampedAnswer(m) ==
  LET d == SetItem(request.json.obj, "limit", Max(RequestLimit, m))
  IN  IF request.op = "filter"
      THEN FilterResult(heap, ARTICLES,
                        JsonObj(SetItem(d, "page", Max(RequestPage, 1)))).body.articles
      ELSE SearchResult(heap, ARTICLES, JsonObj(d)).response.body.results

AnsweredList ==
  IF request.op = "filter" THEN response.body.articles ELSE response.body.results

\* C3: a request with page < 1, page size <= 0 or a negative search limit
\* is rejected with an error, or answered as with page and limit raised to a
\* minimum (0 or 1); never with another slice of the results.
C3_ContractViolationsRejectedOrClamped ==
  (phase = "responded" /\ ViolatesContract) =>
    \/ response.status # 200
    \/ \E m \in 0..1 : AnsweredList = ClampedAnswer(m)

\* "YYYY-MM-DD" as a number that orders as the calendar does.
Digit(s, i) == Ord(Char(s, i)) - Ord("0")

DateKey(d) ==
  (Digit(d, 1) * 1000 + Digit(d, 2) * 100 + Digit(d, 3) * 10 + Digit(d, 4)) * 10000
    + (Digit(d, 6) * 10 + Digit(d, 7)) * 100
    + (Digit(d, 9) * 10 + Digit(d, 10))

CategoriesGiven(d) == "categories" \in DOMAIN d /\ d.categories # <<>>

StartGiven(d) ==
  "date_range" \in DOMAIN d /\ "start" \in DOMAIN d.date_range /\ d.date_range.start # ""

EndGiven(d) ==
  "date_range" \in DOMAIN d /\ "end" \in DOMAIN d.date_range /\ d.date_range.end # ""

Satisfies(a, d) ==
  /\ CategoriesGiven(d) => \E k \in 1..Len(d.categories) : d.categories[k] = a.category
  /\ StartGiven(d) => DateKey(a.publication_date) >= DateKey(d.date_range.start)
  /\ EndGiven(d) => DateKey(a.publication_date) <= DateKey(d.date_range.end)

\* The articles that satisfy the criteria d, in corpus order from i on.
RECURSIVE ExpectedFiltered(_, _)
ExpectedFiltered(d, i) ==
  IF i > Len(ARTICLES) THEN <<>>
  ELSE (IF Satisfies(Article(i), d) THEN <<Article(i)>> ELSE <<>>)
       \o ExpectedFiltered(d, i + 1)

\* The page the handler returns for page k of the request's criteria and size.
PageOf(k) ==
  FilterResult(heap, ARTICLES, JsonObj(SetItem(request.json.obj, "page", k))).body.articles

RECURSIVE PagesThrough(_)
PagesThrough(k) == IF k = 0 THEN <<>> ELSE PagesThrough(k - 1) \o PageOf(k)

\* C4: for a page size s > 0, pages 1, 2, 3, ... of the same criteria
\* concatenate to the full filtered sequence in corpus order, nothing missing
\* and nothing repeated, and a page whose offset is >= total is empty.
C4_PagesReassembleFilteredSequence ==
  (Answered("filter") /\ RequestPage >= 1 /\ RequestLimit > 0) =>
    LET full == ExpectedFiltered(request.json.obj, 1)
        s == RequestLimit
        last == (Len(full) + s - 1) \div s
    IN  /\ response.body.articles =
             SubSeq(full, Min((RequestPage - 1) * s, Len(full)) + 1,
                    Min(RequestPage * s, Len(full)))
        /\ PagesThrough(last) = full
        /\ \A k \in 1..(last + 2) : (k - 1) * s >= Len(full) => PageOf(k) = <<>>
        /\ (RequestPage - 1) * s >= response.body.total => response.body.articles = <<>>

\* The second page of a filtered sequence of several pages, not empty.
C4_Witness ==
  /\ Answered("filter")
  /\ RequestPage = 2
  /\ RequestLimit > 0
  /\ CategoriesGiven(request.json.obj) \/ StartGiven(request.json.obj)
  /\ response.body.total > 2 * RequestLimit
  /\ Len(response.body.articles) = RequestLimit

\* C5: filter keeps exactly the articles that satisfy every given criterion
\* (category in categories, date >= start, date <= end, both inclusive);
\* total is their number, whatever the page and the page size.
C5_FilterIsConjunctive ==
  Answered("filter") =>
    LET full == ExpectedFiltered(request.json.obj, 1)
    IN  /\ response.body.total = Len(full)
        /\ (RequestPage = 1 /\ RequestLimit >= Len(ARTICLES)) =>
             response.body.articles = full

\* A filter by categories, start and end that keeps some articles and drops
\* others, one of those kept published on the end date itself.
C5_Witness ==
  /\ Answered("filter")
  /\ CategoriesGiven(request.json.obj)
  /\ StartGiven(request.json.obj)
  /\ EndGiven(request.json.obj)
  /\ RequestPage = 1
  /\ RequestLimit >= Len(ARTICLES)
  /\ response.body.total > 0
  /\ response.body.total < Len(ARTICLES)
  /\ \E j \in 1..Len(response.body.articles) :
       response.body.articles[j].publication_date = request.json.obj.date_range.end
  /\ \E i \in 1..Len(ARTICLES) :
       /\ ListIn(Article(i).category, request.json.obj.categories)
       /\ ~Satisfies(Article(i), request.json.obj)

\* The synonym groups: the surface forms and the canonical term of each.
SynonymGroups ==
  { [members |-> {"roosevelt", "roosvelt", "roosavelt", "fdr"}, term |-> "roosevelt"],
    [members |-> {"churchill", "churchil"}, term |-> "churchill"],
    [members |-> {"world war", "ww2"}, term |-> "war"],
    [members |-> {"pearl harbor"}, term |-> "pearl harbor"] }

MembersIn(g, q) == {m \in g.members : StrIn(m, q)}

Triggered(q) == {g \in SynonymGroups : MembersIn(g, q) # {}}

LoweredQuery == lower(request.json.obj.query)

\* C6: the terms hold the canonical term of every group with a member in
\* the lower-cased query exactly once, however many members occur; no term
\* is repeated; several triggered groups give one term each.
C6_CanonicalTermOncePerGroup ==
  Answered("search") =>
    /\ \A g \in Triggered(LoweredQuery) : Count(search_terms, g.term) = 1
    /\ \A k \in 1..Len(search_terms) : Count(search_terms, search_terms[k]) = 1
    /\ Triggered(LoweredQuery) # {} =>
         Len(search_terms) = Cardinality(Triggered(LoweredQuery))

\* A query with several members of one group and a member of another.
C6_Witness ==
  /\ Answered("search")
  /\ \E g \in Triggered(LoweredQuery) :
       /\ Cardinality(MembersIn(g, LoweredQuery)) >= 2
       /\ Count(search_terms, g.term) = 1
  /\ Cardinality(Triggered(LoweredQuery)) >= 2
  /\ Len(search_terms) = Cardinality(Triggered(LoweredQuery))

\* C7: a query with no member of any group gives exactly one term, the
\* whole lower-cased query; when a group matched, every term is the
\* canonical term of a matched group (the query itself is not added).
C7_FallbackOnlyWithoutGroup ==
  Answered("search") =>
    IF Triggered(LoweredQuery) = {}
    THEN search_terms = <<LoweredQuery>>
    ELSE \A k \in 1..Len(search_terms) :
           \E g \in Triggered(LoweredQuery) : search_terms[k] = g.term

\* A free-text query, not in lower case, searched as its lower-cased self.
C7_Witness ==
  /\ Answered("search")
  /\ Triggered(LoweredQuery) = {}
  /\ request.json.obj.query # LoweredQuery
  /\ search_terms = <<LoweredQuery>>
  /\ response.body.results # <<>>

\* C8: no request changes the corpus, however the requests follow or
\* overlap each other: after every step of every handler the lists ARTICLES
\* and ENTITIES and every stored dict are as before (no similarity or
\* entities item is written onto a stored article).
C8_CorpusUnchanged ==
  [][heap' = heap /\ ARTICLES' = ARTICLES /\ ENTITIES' = ENTITIES]_vars

\* Two requests overlap: a search in the middle of its scan holds a scored
\* copy while an article-detail request holds its copy with entities, for an
\* article the search has yet to scan; no stored article holds either item.
C8_Witness ==
  /\ \E t, u \in Threads :
       /\ threads[t].request.op = "search"
       /\ threads[t].pc = "scan"
       /\ threads[t].idx <= Len(ARTICLES)
       /\ threads[t].refs # <<>>
       /\ \A j \in 1..Len(threads[t].refs) :
            "similarity" \in DOMAIN ThreadHeap(t)[threads[t].refs[j]]
       /\ threads[u].request.op = "get_article"
       /\ threads[u].pc = "respond"
       /\ "entities" \in DOMAIN ThreadHeap(u)[threads[u].refs[1]]
       /\ ThreadHeap(u)[threads[u].refs[1]].id = Article(4).id
       /\ threads[t].idx <= 4
  /\ \A i \in 1..Len(ARTICLES) :
       /\ "similarity" \notin DOMAIN Article(i)
       /\ "entities" \notin DOMAIN Article(i)

\* C9: a filter request that gives none of categories, date_range, page and
\* limit is answered with the defaults: the first 10 articles of the corpus,
\* total the corpus size, page 1, limit 10.
C9_EmptyFilterAnsweredWithDefaults ==
  (Responded("filter") /\ ~request.json.isnull /\ DOMAIN request.json.obj = {}) =>
    /\ response.status = 200
    /\ response.body = [articles |-> SubSeq(Corpus, 1, Min(10, Len(Corpus))),
                        total |-> Len(Corpus), page |-> 1, limit |-> 10]

\* C10: a search request whose query is the empty string is not searched:
\* the articles are never scanned for the term "".
C10_EmptyQueryNotSearched ==
  (Responded("search") /\ ~Falsy(request.json)
     /\ "query" \in DOMAIN request.json.obj /\ request.json.obj.query = "") =>
    /\ ~ListIn("", search_terms)
    /\ response.status # 200

====
